---- MODULE Spec2Model ----
(***************************************************************************)
(* Model of the rotating log writer SeanLogger (package logger).           *)
(* One SeanLogger value, the clock it reads and the directory it writes    *)
(* to.  Every exported method is one atomic action: the logger is used by  *)
(* a single goroutine and holds no lock.                                   *)
(***************************************************************************)
EXTENDS Integers, Sequences, FiniteSets, TLC

\* ---------------------------------------------------------------- bounds
MaxTime == 3          \* the clock runs over 0..MaxTime seconds
MaxMsgs == 3          \* LogMessage calls per behaviour
MaxStarts == 2        \* StartLog calls per behaviour
MaxThreshold == 2     \* the caller sets each threshold field in 0..MaxThreshold
BufCap == 2           \* lines the bufio.Writer holds before it flushes by itself
MaxCalls == 2         \* calls of the Updater methods per behaviour

Messages == {"a", "b"}
BaseNames == {"log"}

VARIABLES
    MaxLogFileCount,      \* sl.MaxLogFileCount
    MaxLogMessageCount,   \* sl.MaxLogMessageCount
    MaxLogDuration,       \* sl.MaxLogDuration
    BaseLogName,          \* sl.BaseLogName
    logFileCount,         \* sl.logFileCount
    logMessageCount,      \* sl.logMessageCount
    logDuration,          \* sl.logDuration
    logStamp,             \* sl.logStamp
    log,                  \* sl.log: a descriptor number, 0 is the nil *os.File
    writer,               \* sl.writer: the bufio.Writer, isNil for the nil pointer
    fs,                   \* the directory and the descriptors this process opened
    now,                  \* the wall clock, in seconds
    alerts,               \* what has been sent to the operator so far
    panicked,             \* the goroutine died of a nil dereference
    sent,                 \* every message passed to LogMessage, in call order
    rolloverAt,           \* the numbers of the LogMessage calls that ran newFile
    lastCall,             \* the method that returned last
    rolled,               \* the last LogMessage call ran newFile
    createErr,            \* the last os.Create returned an error
    sinceOpen,            \* at the last LogMessage: seconds since the active file was opened
    cntTripped,           \* some LogMessage saw logMessageCount > MaxLogMessageCount
    durTripped,           \* some LogMessage saw logDuration > MaxLogDuration
    startCalls,           \* StartLog calls so far
    starts,               \* StartLog calls that returned nil
    failures,             \* os.Create calls that returned an error
    udrPc,                \* where the Updater is: "idle", or "sleeping" inside Run
    udrCalls,             \* calls of Run and UpdateNecessary so far
    lgrLines,             \* the lines the Updater passed to udr.lgr.LogMessage
    updates,              \* calls of doUpdate so far
    updated,              \* the last Updater call ran doUpdate
    lastLocal,            \* what localVersion() returned in the last call
    lastRemote,           \* what remoteVersion() returned in the last call
    ret                   \* the Updater call that returned last, and its results

config == <<MaxLogFileCount, MaxLogMessageCount, MaxLogDuration>>
fields == <<BaseLogName, logFileCount, logMessageCount, logDuration, logStamp,
            log, writer>>
env    == <<fs, now, alerts, panicked>>
hist   == <<sent, rolloverAt, lastCall, rolled, createErr, sinceOpen,
            cntTripped, durTripped, startCalls, starts, failures>>
vars   == <<config, fields, env, hist>>
uvars  == <<udrPc, udrCalls, lgrLines, updates, updated, lastLocal, lastRemote,
            ret>>

\* ------------------------------------------------------------ file system
\* fs.files maps the names that exist in the directory to their lines;
\* fs.fds[k] is the k-th descriptor os.Create returned to this process.
NoFiles == [n \in {} |-> <<>>]

EmptyFs == [files |-> NoFiles, fds |-> <<>>]

\* utils.FullDateStringSafe(): the wall-clock time as a file-name-safe
\* string; one string per second of the clock.
FullDateStringSafe(t) == t

LogFileHandle(logBaseName, t) == <<logBaseName, " ", FullDateStringSafe(t)>>

\* os.Create: O_RDWR|O_CREATE|O_TRUNC.  An existing file of that name is
\* truncated.  ok = FALSE is the call returning (nil, err).
Create(name, ok, t, f) ==
    IF ~ok
    THEN [fd |-> 0, fs |-> f]
    ELSE [fd |-> Len(f.fds) + 1,
          fs |-> [files |-> (name :> <<>>) @@ f.files,
                  fds   |-> Append(f.fds, [name |-> name, open |-> TRUE,
                                           openedAt |-> t])]]

IsOpen(fd, f) == fd # 0 /\ f.fds[fd].open

\* (*os.File).Close: on nil or on a closed file it returns an error, which
\* the logger drops.
Close(fd, f) ==
    IF IsOpen(fd, f)
    THEN [f EXCEPT !.fds[fd].open = FALSE]
    ELSE f

\* (*os.File).Write of the lines data at the end of the file.
FileWrite(fd, data, f) ==
    [f EXCEPT !.files[f.fds[fd].name] = @ \o data]

\* ---------------------------------------------------------- bufio.Writer
NilWriter == [isNil |-> TRUE, wr |-> 0, buf |-> <<>>, err |-> FALSE]

NewWriter(fd) == [isNil |-> FALSE, wr |-> fd, buf |-> <<>>, err |-> FALSE]

\* (*bufio.Writer).Flush: a write error is kept in the writer and the
\* buffered lines stay where they are.
Flush(w, f) ==
    IF w.err \/ w.buf = <<>>
    THEN [w |-> w, fs |-> f]
    ELSE IF IsOpen(w.wr, f)
         THEN [w |-> [w EXCEPT !.buf = <<>>], fs |-> FileWrite(w.wr, w.buf, f)]
         ELSE [w |-> [w EXCEPT !.err = TRUE], fs |-> f]

\* fmt.Fprintln(sl.writer, message): one Write of the line.  A full buffer
\* is flushed first; a writer in error drops the line.
Fprintln(w, message, f) ==
    LET fl == IF Len(w.buf) >= BufCap THEN Flush(w, f) ELSE [w |-> w, fs |-> f]
    IN  IF fl.w.err
        THEN fl
        ELSE [w |-> [fl.w EXCEPT !.buf = Append(@, message)], fs |-> fl.fs]

\* ------------------------------------------------------------- the logger
\* The body of handleCreateError is empty: nothing reaches the operator.
handleCreateError(al) == al

\* shouldRotate with the comparisons made inclusive.
shouldRotateInclusive(cnt, dur, maxCnt, maxDur) == cnt >= maxCnt \/ dur >= maxDur

\* The condition of the if statement in LogMessage.
shouldRotate(cnt, dur, maxCnt, maxDur) == cnt > maxCnt \/ dur > maxDur

\* newFile leaving a nil writer behind when os.Create fails.
newFileNilWriterOnError(w, lg, base, f, t, ok, al) ==
    LET fl == Flush(w, f)
        cl == Close(lg, fl.fs)
        cr == Create(LogFileHandle(base, t), ok, t, cl)
    IN  [log    |-> cr.fd,
         writer |-> IF ok THEN NewWriter(cr.fd) ELSE NilWriter,
         fs     |-> cr.fs,
         alerts |-> IF ok THEN al ELSE handleCreateError(al)]

\* newFile: flush, close, create, swap.  It touches no counter.
newFile(w, lg, base, f, t, ok, al) ==
    LET fl == Flush(w, f)
        cl == Close(lg, fl.fs)
        cr == Create(LogFileHandle(base, t), ok, t, cl)
    IN  [log    |-> cr.fd,
         writer |-> NewWriter(cr.fd),
         fs     |-> cr.fs,
         alerts |-> IF ok THEN al ELSE handleCreateError(al)]

\* ------------------------------------------------------------ the updater
\* What the version file or the response body may hold.
Contents ==
    { <<>>, <<"1">>, <<"2", "\n">>, <<"\n", "1", "0">>, <<"0", "2">>,
      <<"1", "\n", "2">>, <<"x">> }

\* ioutil.ReadFile(udr.localVersionURI): an error or the bytes of the file.
LocalReads ==
    {[ok |-> FALSE, data |-> <<>>]} \cup {[ok |-> TRUE, data |-> c] : c \in Contents}

\* http.Get and ioutil.ReadAll: either may fail, else the bytes of the body.
RemoteReads ==
    {[get |-> FALSE, read |-> FALSE, data |-> <<>>],
     [get |-> TRUE, read |-> FALSE, data |-> <<>>]}
    \cup {[get |-> TRUE, read |-> TRUE, data |-> c] : c \in Contents}

DigitValue ==
    [c \in {"0", "1", "2", "3", "4", "5", "6", "7", "8", "9"} |->
        CASE c = "0" -> 0 [] c = "1" -> 1 [] c = "2" -> 2 [] c = "3" -> 3
          [] c = "4" -> 4 [] c = "5" -> 5 [] c = "6" -> 6 [] c = "7" -> 7
          [] c = "8" -> 8 [] c = "9" -> 9]

RECURSIVE TrimLeft(_)
TrimLeft(str) ==
    IF str # <<>> /\ Head(str) = "\n" THEN TrimLeft(Tail(str)) ELSE str

RECURSIVE TrimRight(_)
TrimRight(str) ==
    IF str # <<>> /\ str[Len(str)] = "\n"
    THEN TrimRight(SubSeq(str, 1, Len(str) - 1))
    ELSE str

\* strings.Trim(s, "\n"): the newlines at both ends are removed.
Trim(str) == TrimRight(TrimLeft(str))

\* strconv.ParseUint(s, 10, 64) succeeds on a non-empty string of decimal
\* digits (the strings here are too short to leave 64 bits).
IsUint(str) == str # <<>> /\ \A i \in DOMAIN str : str[i] \in DOMAIN DigitValue

RECURSIVE ParseUint(_)
ParseUint(str) ==
    IF str = <<>>
    THEN 0
    ELSE 10 * ParseUint(SubSeq(str, 1, Len(str) - 1)) + DigitValue[str[Len(str)]]

NotRead == [err |-> "not called", val |-> 0, lines |-> <<>>]

\* localVersion: the error, the version and the lines it logs.
localVersion(rd) ==
    IF ~rd.ok
    THEN [err |-> "local: ReadFile", val |-> 0, lines |-> <<>>]
    ELSE IF ~IsUint(Trim(rd.data))
         THEN [err |-> "local: ParseUint", val |-> 0, lines |-> <<>>]
         ELSE [err |-> "nil", val |-> ParseUint(Trim(rd.data)),
               lines |-> << <<"retrieved local version", ParseUint(Trim(rd.data))>> >>]

\* remoteVersion: the error, the version and the lines it logs.
remoteVersion(rs) ==
    IF ~rs.get
    THEN [err |-> "remote: Get", val |-> 0, lines |-> <<>>]
    ELSE IF ~rs.read
         THEN [err |-> "remote: ReadAll", val |-> 0, lines |-> <<>>]
         ELSE IF ~IsUint(Trim(rs.data))
              THEN [err |-> "remote: ParseUint", val |-> 0, lines |-> <<>>]
              ELSE [err |-> "nil", val |-> ParseUint(Trim(rs.data)),
                    lines |-> << <<"retrieved remote version", ParseUint(Trim(rs.data))>> >>]

\* The comparison made inclusive.
remoteNotOlder(local, remote) == remote >= local

\* The comparison of Run that decides on the update.
remoteIsNewer(local, remote) == remote > local

\* doUpdate logs one line and returns nil.
doUpdate == << <<"performing an update">> >>

UpdaterInit ==
    /\ udrPc = "idle"
    /\ udrCalls = 0
    /\ lgrLines = <<>>
    /\ updates = 0
    /\ updated = FALSE
    /\ lastLocal = NotRead
    /\ lastRemote = NotRead
    /\ ret = [call |-> "none", err |-> "nil", val |-> FALSE]

Init ==
    /\ UpdaterInit
    /\ MaxLogFileCount \in 1..MaxThreshold
    /\ MaxLogMessageCount \in 0..MaxThreshold
    /\ MaxLogDuration \in 0..MaxThreshold
    /\ BaseLogName = ""
    /\ logFileCount = 0
    /\ logMessageCount = 0
    /\ logDuration = 0
    /\ logStamp = 0
    /\ log = 0
    /\ writer = NilWriter
    /\ fs = EmptyFs
    /\ now = 0
    /\ alerts = 0
    /\ panicked = FALSE
    /\ sent = <<>>
    /\ rolloverAt = {}
    /\ lastCall = "none"
    /\ rolled = FALSE
    /\ createErr = FALSE
    /\ sinceOpen = -1
    /\ cntTripped = FALSE
    /\ durTripped = FALSE
    /\ startCalls = 0
    /\ starts = 0
    /\ failures = 0

\* One second passes.
Tick ==
    /\ now < MaxTime
    /\ now' = now + 1
    /\ UNCHANGED <<config, fields, fs, alerts, panicked, hist>>

\* StartLog with BaseLogName stored before the error of os.Create is tested.
StartLogStoresNameFirst(logBaseName, ok) ==
    LET cr == Create(LogFileHandle(logBaseName, now), ok, now, fs)
    IN  /\ ~panicked
        /\ startCalls < MaxStarts
        /\ startCalls' = startCalls + 1
        /\ lastCall' = "StartLog"
        /\ createErr' = ~ok
        /\ rolled' = FALSE
        /\ BaseLogName' = logBaseName
        /\ IF ~ok
           THEN /\ failures' = failures + 1
                /\ UNCHANGED <<logFileCount, logMessageCount, logDuration,
                               logStamp, log, writer, fs, starts>>
           ELSE /\ logFileCount' = 0
                /\ logDuration' = 0
                /\ logStamp' = now
                /\ log' = cr.fd
                /\ writer' = NewWriter(cr.fd)
                /\ fs' = cr.fs
                /\ starts' = starts + 1
                /\ UNCHANGED <<logMessageCount, failures>>
        /\ UNCHANGED <<config, now, alerts, panicked, sent, rolloverAt,
                       sinceOpen, cntTripped, durTripped>>

StartLog(logBaseName, ok) ==
    LET cr == Create(LogFileHandle(logBaseName, now), ok, now, fs)
    IN  /\ ~panicked
        /\ startCalls < MaxStarts
        /\ startCalls' = startCalls + 1
        /\ lastCall' = "StartLog"
        /\ createErr' = ~ok
        /\ rolled' = FALSE
        /\ IF ~ok
           THEN /\ failures' = failures + 1
                /\ UNCHANGED <<fields, fs, starts>>
           ELSE /\ BaseLogName' = logBaseName
                /\ logFileCount' = 0
                /\ logDuration' = 0
                /\ logStamp' = now
                /\ log' = cr.fd
                /\ writer' = NewWriter(cr.fd)
                /\ fs' = cr.fs
                /\ starts' = starts + 1
                /\ UNCHANGED <<logMessageCount, failures>>
        /\ UNCHANGED <<config, now, alerts, panicked, sent, rolloverAt,
                       sinceOpen, cntTripped, durTripped>>

\* LogMessage with the counters set back to 0 by every rollover, whether or
\* not the new file could be created.
LogMessageResetsOnRollover(message, ok) ==
    /\ ~panicked
    /\ Len(sent) < MaxMsgs
    /\ lastCall' = "LogMessage"
    /\ IF writer.isNil
       THEN /\ panicked' = TRUE
            /\ UNCHANGED <<config, fields, fs, now, alerts, sent, rolloverAt,
                           rolled, createErr, sinceOpen, cntTripped,
                           durTripped, startCalls, starts, failures>>
       ELSE LET pr  == Fprintln(writer, message, fs)
                cnt == logMessageCount + 1
                dur == logDuration + (now - logStamp)
                rot == shouldRotate(cnt, dur, MaxLogMessageCount, MaxLogDuration)
                nf  == newFile(pr.w, log, BaseLogName, pr.fs, now, ok, alerts)
            IN  /\ sent' = Append(sent, message)
                /\ logMessageCount' = IF rot THEN 0 ELSE cnt
                /\ logDuration' = IF rot THEN 0 ELSE dur
                /\ logStamp' = now
                /\ sinceOpen' = IF log # 0 THEN now - fs.fds[log].openedAt ELSE -1
                /\ cntTripped' = (cntTripped \/ cnt > MaxLogMessageCount)
                /\ durTripped' = (durTripped \/ dur > MaxLogDuration)
                /\ rolled' = rot
                /\ IF rot
                   THEN /\ log' = nf.log
                        /\ writer' = nf.writer
                        /\ fs' = nf.fs
                        /\ alerts' = nf.alerts
                        /\ rolloverAt' = rolloverAt \cup {Len(sent) + 1}
                        /\ createErr' = ~ok
                        /\ failures' = IF ok THEN failures ELSE failures + 1
                   ELSE /\ writer' = pr.w
                        /\ fs' = pr.fs
                        /\ UNCHANGED <<log, alerts, rolloverAt, createErr,
                                       failures>>
                /\ UNCHANGED <<config, BaseLogName, logFileCount, now,
                               panicked, startCalls, starts>>

LogMessage(message, ok) ==
    /\ ~panicked
    /\ Len(sent) < MaxMsgs
    /\ lastCall' = "LogMessage"
    /\ IF writer.isNil
       THEN \* Fprintln dereferences the nil *bufio.Writer
            /\ panicked' = TRUE
            /\ UNCHANGED <<config, fields, fs, now, alerts, sent, rolloverAt,
                           rolled, createErr, sinceOpen, cntTripped,
                           durTripped, startCalls, starts, failures>>
       ELSE LET pr  == Fprintln(writer, message, fs)
                cnt == logMessageCount + 1
                dur == logDuration + (now - logStamp)
                rot == shouldRotate(cnt, dur, MaxLogMessageCount, MaxLogDuration)
                nf  == newFile(pr.w, log, BaseLogName, pr.fs, now, ok, alerts)
            IN  /\ sent' = Append(sent, message)
                /\ logMessageCount' = cnt
                /\ logDuration' = dur
                /\ logStamp' = now
                /\ sinceOpen' = IF log # 0 THEN now - fs.fds[log].openedAt ELSE -1
                /\ cntTripped' = (cntTripped \/ cnt > MaxLogMessageCount)
                /\ durTripped' = (durTripped \/ dur > MaxLogDuration)
                /\ rolled' = rot
                /\ IF rot
                   THEN /\ log' = nf.log
                        /\ writer' = nf.writer
                        /\ fs' = nf.fs
                        /\ alerts' = nf.alerts
                        /\ rolloverAt' = rolloverAt \cup {Len(sent) + 1}
                        /\ createErr' = ~ok
                        /\ failures' = IF ok THEN failures ELSE failures + 1
                   ELSE /\ writer' = pr.w
                        /\ fs' = pr.fs
                        /\ UNCHANGED <<log, alerts, rolloverAt, createErr,
                                       failures>>
                /\ UNCHANGED <<config, BaseLogName, logFileCount, now,
                               panicked, startCalls, starts>>

Next ==
    \/ Tick /\ UNCHANGED uvars
    \/ \E b \in BaseNames, ok \in BOOLEAN : StartLog(b, ok) /\ UNCHANGED uvars
    \/ \E m \in Messages, ok \in BOOLEAN : LogMessage(m, ok) /\ UNCHANGED uvars

Spec == Init /\ [][Next]_<<vars, uvars>>

\* Run up to the end of its sleep: it logs that it waits and sleeps.
RunSleep ==
    /\ udrPc = "idle"
    /\ udrCalls < MaxCalls
    /\ udrCalls' = udrCalls + 1
    /\ udrPc' = "sleeping"
    /\ lgrLines' = Append(lgrLines, <<"waiting for updates">>)
    /\ UNCHANGED <<updates, updated, lastLocal, lastRemote, ret, vars>>

\* Run from the end of its sleep to its return.
RunCheck(rd, rs) ==
    LET local  == localVersion(rd)
        remote == remoteVersion(rs)
        readOk == local.err = "nil" /\ remote.err = "nil"
        upd    == readOk /\ remoteIsNewer(local.val, remote.val)
    IN  /\ udrPc = "sleeping"
        /\ udrPc' = "idle"
        /\ lastLocal' = local
        /\ lastRemote' = remote
        /\ updated' = upd
        /\ updates' = IF upd THEN updates + 1 ELSE updates
        /\ lgrLines' = lgrLines \o local.lines \o remote.lines \o
                        (IF upd
                         THEN << <<"localVersion", local.val>>,
                                 <<"remoteVersion", remote.val>>,
                                 <<"Newer remote version available">> >> \o doUpdate
                         ELSE <<>>)
        /\ ret' = [call |-> "Run",
                   err  |-> IF local.err # "nil" THEN local.err ELSE remote.err,
                   val  |-> FALSE]
        /\ UNCHANGED <<udrCalls, vars>>

UpdateNecessary(rd, rs) ==
    LET local  == localVersion(rd)
        remote == IF local.err = "nil" THEN remoteVersion(rs) ELSE NotRead
        readOk == local.err = "nil" /\ remote.err = "nil"
    IN  /\ udrPc = "idle"
        /\ udrCalls < MaxCalls
        /\ udrCalls' = udrCalls + 1
        /\ lastLocal' = local
        /\ lastRemote' = remote
        /\ updated' = FALSE
        /\ lgrLines' = lgrLines \o local.lines \o remote.lines \o
                        (IF ~readOk THEN <<>>
                         ELSE IF local.val > remote.val
                              THEN << <<"higher than the remote", local.val, remote.val>> >>
                              ELSE IF local.val = remote.val
                                   THEN << <<"equals the remote", local.val, remote.val>> >>
                                   ELSE << <<"lower than the remote", local.val, remote.val>> >>)
        /\ ret' = [call |-> "UpdateNecessary",
                   err  |-> IF local.err # "nil" THEN local.err ELSE remote.err,
                   val  |-> readOk /\ remote.val > local.val]
        /\ UNCHANGED <<udrPc, updates, vars>>

\* The updater alone: the SeanLogger above is not the logger it writes to.
InitUpd ==
    /\ Init
    /\ MaxLogFileCount = 1
    /\ MaxLogMessageCount = 0
    /\ MaxLogDuration = 0

NextUpd ==
    \/ RunSleep
    \/ \E rd \in LocalReads, rs \in RemoteReads : RunCheck(rd, rs)
    \/ \E rd \in LocalReads, rs \in RemoteReads : UpdateNecessary(rd, rs)

SpecUpd == InitUpd /\ [][NextUpd]_<<vars, uvars>>

TypeOK ==
    /\ logMessageCount \in 0..MaxMsgs
    /\ logDuration \in 0..MaxTime
    /\ log \in 0..Len(fs.fds)
    /\ Len(sent) <= MaxMsgs

\* ------------------------------------------------------------ properties
\* The logger was started once, at the beginning, and no os.Create failed.
OneCleanStart == startCalls = 1 /\ starts = 1 /\ failures = 0 /\ ~panicked

RECURSIVE LinesUpTo(_, _)
\* The lines of the files of a base name, oldest time stamp first.
LinesUpTo(base, t) ==
    IF t < 0
    THEN <<>>
    ELSE LinesUpTo(base, t - 1) \o
         (IF LogFileHandle(base, t) \in DOMAIN fs.files
          THEN fs.files[LogFileHandle(base, t)]
          ELSE <<>>)

\* What the logger has stored: the files of its base name followed by the
\* lines still held in the active writer.
Stored == LinesUpTo(BaseLogName, MaxTime) \o writer.buf

OpenFds == {k \in DOMAIN fs.fds : fs.fds[k].open}

FilesOf(base) == {n \in DOMAIN fs.files : n[1] = base}

IsPrefix(s, t) == Len(s) <= Len(t) /\ SubSeq(t, 1, Len(s)) = s

\* C1: a LogMessage call runs newFile if and only if, after it has updated
\* the counters, logMessageCount > MaxLogMessageCount or
\* logDuration > MaxLogDuration; equality with a threshold does not rotate.
C1_RotateIffExceeded ==
    (lastCall = "LogMessage" /\ ~panicked) =>
        (rolled <=> (logMessageCount > MaxLogMessageCount
                     \/ logDuration > MaxLogDuration))

\* C1 witness: a call that rotated on the duration alone, the message count
\* being exactly at its threshold.
C1_Witness ==
    /\ lastCall = "LogMessage"
    /\ rolled
    /\ logMessageCount = MaxLogMessageCount
    /\ logDuration = MaxLogDuration + 1

\* C2: after one successful StartLog and LogMessage calls without a failed
\* file-system call, the messages passed to LogMessage are exactly what the
\* logger's files hold, in order, none lost and none duplicated.
C2_RoundTrip == OneCleanStart => Stored = sent

\* C3: a successful rollover leaves the message counter at 0, and with the
\* duration threshold never exceeded the rollovers are exactly the appends
\* numbered k+1, 2(k+1), ... for k = MaxLogMessageCount.
C3_RolloverEveryKPlusOne ==
    (OneCleanStart /\ ~durTripped) =>
        /\ (lastCall = "LogMessage" /\ rolled) => logMessageCount = 0
        /\ rolloverAt = {i \in 1..Len(sent) : i % (MaxLogMessageCount + 1) = 0}

\* C4: after one successful StartLog and N >= 1 LogMessage calls with
\* MaxLogMessageCount = k >= 1, no failed creation and the duration threshold
\* never exceeded, the logger has created ceil(N / (k+1)) files.
C4_FileCountCeil ==
    (OneCleanStart /\ ~durTripped /\ Len(sent) >= 1 /\ MaxLogMessageCount >= 1) =>
        Len(fs.fds) = (Len(sent) + MaxLogMessageCount) \div (MaxLogMessageCount + 1)

\* C5: no log file holds more than MaxLogMessageCount lines.
C5_MessagesPerFileBounded ==
    MaxLogMessageCount >= 1 =>
        \A n \in DOMAIN fs.files : Len(fs.files[n]) <= MaxLogMessageCount

\* C6: after a completed rollover at most MaxLogFileCount files of the
\* logger's base name are on disk, the active file among them.
C6_RetentionBound ==
    (lastCall = "LogMessage" /\ rolled /\ ~createErr) =>
        /\ Cardinality(FilesOf(BaseLogName)) <= MaxLogFileCount
        /\ fs.fds[log].name \in FilesOf(BaseLogName)

\* C7: creating a log file never overwrites one: the lines a file holds
\* stay in it across every StartLog and every rollover.
C7_NeverOverwrites ==
    [][\A n \in DOMAIN fs.files :
           n \in DOMAIN fs'.files /\ IsPrefix(fs.files[n], fs'.files[n])]_vars

\* C8: a rollover whose file creation fails leaves the logger without an
\* active file, raises an operator alert, and the call returns without panic.
C8_FailedRolloverAlerts ==
    (lastCall = "LogMessage" /\ rolled /\ createErr) =>
        (log = 0 /\ alerts > 0 /\ ~panicked)

\* C9: once StartLog has succeeded, exactly one file opened by the logger is
\* open, and it is the one the buffered writer writes to.
C9_ExactlyOneOpen ==
    starts > 0 =>
        /\ Cardinality(OpenFds) = 1
        /\ log \in OpenFds
        /\ writer.wr = log

\* C10: with the message-count threshold never exceeded, a LogMessage call
\* rolls over if and only if more than MaxLogDuration seconds have passed
\* since the active file was opened.
C10_DurationSinceOpen ==
    (lastCall = "LogMessage" /\ ~panicked /\ ~cntTripped /\ sinceOpen >= 0) =>
        (rolled <=> sinceOpen > MaxLogDuration)

\* Sanity: without a repeated file name the round trip holds.
NoCollision ==
    \A i, j \in DOMAIN fs.fds : fs.fds[i].name = fs.fds[j].name => i = j

RoundTripWithoutCollision == (OneCleanStart /\ NoCollision) => Stored = sent

\* A StartLog call has just returned.
StartLogReturned == startCalls' = startCalls + 1

\* A LogMessage call has just returned without a panic.
LogMessageReturned == Len(sent') = Len(sent) + 1

\* C11: a StartLog whose os.Create fails returns the error and leaves every
\* field of the logger, and the directory, as they were.
C11_FailedStartLogChangesNothing ==
    [][(StartLogReturned /\ createErr') =>
           (fields' = fields /\ config' = config /\ fs' = fs)]_vars

\* C11 witness: a failed StartLog on a logger that was started and has
\* logged messages.
C11_Witness ==
    /\ lastCall = "StartLog"
    /\ createErr
    /\ starts > 0
    /\ logMessageCount > 0
    /\ BaseLogName = "log"

\* C12: a successful StartLog returns with the message counter 0, the
\* duration 0, the timestamp the current time and the new file active.
C12_StartLogResetsCounters ==
    [][(StartLogReturned /\ ~createErr') =>
           /\ logMessageCount' = 0
           /\ logDuration' = 0
           /\ logStamp' = now'
           /\ log' = Len(fs'.fds)
           /\ writer'.wr = log']_vars

\* C13: a rollover whose file creation fails leaves logMessageCount,
\* logDuration and logStamp at the values LogMessage gave them just before
\* the rollover.
C13_FailedRolloverKeepsCounters ==
    [][(LogMessageReturned /\ rolled' /\ createErr') =>
           /\ logMessageCount' = logMessageCount + 1
           /\ logDuration' = logDuration + (now - logStamp)
           /\ logStamp' = now]_vars

\* C13 witness: a failed rollover on a logger whose counters are not 0.
C13_Witness ==
    /\ lastCall = "LogMessage"
    /\ rolled
    /\ createErr
    /\ logMessageCount > 1
    /\ logDuration > 0

\* The logger lost its file in a failed rollover.
Degraded == starts > 0 /\ log = 0 /\ ~panicked

\* C14: a LogMessage call made while the logger is Degraded attempts no
\* file creation and leaves the logger Degraded.
C14_DegradedStaysDegraded ==
    [][(Degraded /\ LogMessageReturned) =>
           /\ Len(fs'.fds) = Len(fs.fds)
           /\ failures' = failures
           /\ log' = 0]_vars

Last(s) == s[Len(s)]

\* A LogMessage call that rolled over while a file was active.
RolledFromActive == LogMessageReturned /\ rolled' /\ IsOpen(log, fs)

\* C17: the message whose append trips a threshold ends up in the old file,
\* and the file the rollover created holds no message when the call returns.
C17_TrippingMessageInOldFile ==
    [][RolledFromActive =>
           /\ fs.fds[log].name \in DOMAIN fs'.files
           /\ fs'.files[fs.fds[log].name] # <<>>
           /\ Last(fs'.files[fs.fds[log].name]) = Last(sent')
           /\ writer'.buf = <<>>
           /\ ~createErr' => fs'.files[fs'.fds[log'].name] = <<>>]_vars

\* C18: when a rollover without an I/O failure completes, the old file is
\* closed and holds every line written to it while it was active, none of
\* them left in a buffer.
C18_OldFileCompleteAfterRollover ==
    [][(RolledFromActive /\ ~createErr') =>
           /\ ~fs'.fds[log].open
           /\ fs'.files[fs.fds[log].name]
                  = fs.files[fs.fds[log].name] \o writer.buf \o <<Last(sent')>>
           /\ writer'.buf = <<>>]_vars

C20_WriterNeverNilAfterStart ==
    /\ starts > 0 => ~writer.isNil
    /\ panicked => starts = 0

\* C20 witness: after a failed rollover and a later failed StartLog the
\* logger has no file but still a writer.
C20_Witness ==
    /\ starts > 0
    /\ lastCall = "StartLog"
    /\ createErr
    /\ log = 0
    /\ ~writer.isNil

\* Sanity: the old and the new file of the rollover have different names.
FreshName == createErr' \/ fs'.fds[log'].name # fs.fds[log].name

C17_WithFreshName ==
    [][(RolledFromActive /\ FreshName) =>
           /\ Last(fs'.files[fs.fds[log].name]) = Last(sent')
           /\ writer'.buf = <<>>
           /\ ~createErr' => fs'.files[fs'.fds[log'].name] = <<>>]_vars

C18_WithFreshName ==
    [][(RolledFromActive /\ ~createErr' /\ FreshName) =>
           /\ ~fs'.fds[log].open
           /\ fs'.files[fs.fds[log].name]
                  = fs.files[fs.fds[log].name] \o writer.buf \o <<Last(sent')>>
           /\ writer'.buf = <<>>]_vars

\* Both versions were read in the last Updater call and the remote one is
\* the greater.
RemoteGreater ==
    lastLocal.err = "nil" /\ lastRemote.err = "nil" /\ lastRemote.val > lastLocal.val

\* The error the last Updater call had to return: the local one first.
FirstError ==
    IF lastLocal.err # "nil" THEN lastLocal.err
    ELSE IF lastRemote.err # "nil" THEN lastRemote.err ELSE "nil"

\* C15: Run keeps checking: it does not return after a version check that
\* found no error.
C15_RunKeepsChecking == ~(ret.call = "Run" /\ udrPc = "idle" /\ ret.err = "nil")

\* C16: Run calls doUpdate if and only if both versions were read without
\* error and remote > local, and returns the first read error (the local one
\* when both fail) otherwise; UpdateNecessary returns true under the same
\* comparison and false with the error when a read fails.
C16_UpdateIffRemoteGreater ==
    /\ (ret.call = "Run" /\ udrPc = "idle") =>
           /\ updated <=> RemoteGreater
           /\ ret.err = FirstError
           /\ lastLocal.err # "not called" /\ lastRemote.err # "not called"
    /\ ret.call = "UpdateNecessary" =>
           /\ ~updated
           /\ ret.val <=> RemoteGreater
           /\ ret.err = FirstError
           /\ ret.err # "nil" => ~ret.val

\* C16 witness: a Run that updated from version 2 to version 10.
C16_Witness ==
    /\ ret.call = "Run"
    /\ udrPc = "idle"
    /\ updated
    /\ updates = 1
    /\ lastLocal.val = 2
    /\ lastRemote.val = 10

====
